---- MODULE Spec2Model ----
(***************************************************************************)
(* Ledger core of the banking application: the Convex mutations that      *)
(* change account balances (convex/accounts.ts, convex/admin.ts,          *)
(* convex/transactions.ts, convex/transfers.ts) over the four tables      *)
(* accounts, transactions, transfers and account_balance_history.         *)
(*                                                                         *)
(* Every mutation runs as one serialisable unit (Convex), so each handler  *)
(* is one action.  A handler is written as an operator from the database   *)
(* (a record of the four tables and the id allocator) and its arguments    *)
(* to the database it leaves behind and the value it returns.              *)
(*                                                                         *)
(* Balances and amounts are v.number(): IEEE 754 doubles.  The model keeps  *)
(* a number as an integer count of the smallest amount and, as the double  *)
(* does with 53 bits, rounds every sum to Precision significant bits, the  *)
(* nearest representable number, ties to the even one.                     *)
(***************************************************************************)
EXTENDS Integers, Sequences, FiniteSets, TLC

VARIABLES accounts, transactions, transfers, history, nextId, calls

vars == <<accounts, transactions, transfers, history, nextId, calls>>

(***************************************************************************)
(* Bounds of the model.                                                    *)
(***************************************************************************)
MaxAccounts == 3
MaxTransfers == 2
MaxBulk == 2
\* room for the two legs and the two history rows of every transfer
MaxTx == 2 * MaxTransfers
MaxHist == MaxAccounts + 2 * MaxTransfers
\* the tighter bounds of the one-account specifications
MaxLedgerTx == 2
MaxLedgerHist == 3

(***************************************************************************)
(* Values.                                                                 *)
(***************************************************************************)
\* an optional argument or field: {} when absent (undefined), {v} when v
Undefined == {}
Def(v) == {v}
Val(x) == CHOOSE v \in x : TRUE

AccountIds == 1..MaxAccounts
TransactionIds == 1..MaxTx
TransferIds == 1..MaxTransfers

ExistingUsers == {"u1"}
UserIds == {"u1", "u0"}

\* the arguments the mutations are called with
BalanceArgs == {Undefined, Def(2)}
StatusArgs == {Undefined, Def("inactive")}
AmountArgs == {-1, 2}
TransferAmountArgs == {0, 1, 2}
TypeArgs == {"credit", "debit"}
PendingArgs == {Undefined, Def(TRUE), Def(FALSE)}
TransferTypeArgs == {Undefined, Def("external")}
\* outcomes of 0.1 + Math.random() * 1.9, in tenths
Multipliers == {1, 15}

Abs(x) == IF x < 0 THEN -x ELSE x

\* significant bits of a number (53 in a double)
Precision == 5

\* the distance between neighbouring representable numbers at magnitude n
RECURSIVE Ulp(_)
Ulp(n) == IF n < 2^Precision THEN 1 ELSE 2 * Ulp(n \div 2)

\* the representable number nearest to n, ties to the even significand
RoundNumber(n) ==
  LET m == Abs(n)
      u == Ulp(m)
      q == m \div u
      r == m % u
      k == IF 2 * r > u \/ (2 * r = u /\ q % 2 = 1) THEN q + 1 ELSE q
  IN IF n < 0 THEN -(k * u) ELSE k * u

\* a + b and a - b on numbers
Plus(a, b) == RoundNumber(a + b)
Minus(a, b) == RoundNumber(a - b)

\* JavaScript truthiness of an optional boolean and of an optional number
TruthyBool(x) == x = Def(TRUE)
TruthyNum(x) == x # Undefined /\ x # Def(0)

\* Math.round(n / d) for d > 0: the nearest integer, halves towards +infinity
MathRound(n, d) == (2 * n + d) \div (2 * d)

RECURSIVE SumSeq(_)
SumSeq(s) == IF s = <<>> THEN 0 ELSE Head(s) + SumSeq(Tail(s))

RECURSIVE SumOver(_, _)
SumOver(f, S) ==
  IF S = {} THEN 0
  ELSE LET x == CHOOSE y \in S : TRUE IN f[x] + SumOver(f, S \ {x})

(***************************************************************************)
(* The database a handler sees (ctx.db) and what a handler returns.        *)
(***************************************************************************)
Db ==
  [accounts |-> accounts, transactions |-> transactions,
   transfers |-> transfers, history |-> history, nextId |-> nextId]

\* ctx.db.insert: a fresh id per table, never reused
Insert(db, table, row) ==
  [db EXCEPT ![table] = @ @@ (db.nextId[table] :> row),
             !.nextId[table] = @ + 1]

\* InsertHistory keeping one row per account: the last row is overwritten
\* when it belongs to the same account
InsertHistory_Upsert(db, row) ==
  [db EXCEPT !.history =
     IF @ # <<>> /\ @[Len(@)].account_id = row.account_id
     THEN [@ EXCEPT ![Len(@)] = row]
     ELSE Append(@, row)]

\* ctx.db.insert("account_balance_history", ...)
InsertHistory(db, row) == [db EXCEPT !.history = Append(@, row)]

\* ctx.db.patch(accountId, { balance })
PatchBalance(db, accountId, newBalance) ==
  [db EXCEPT !.accounts[accountId].balance = newBalance]

\* ctx.db.delete(id)
Delete(db, table, id) ==
  [db EXCEPT ![table] = [i \in (DOMAIN @) \ {id} |-> @[i]]]

\* the catch block of every handler: { success: false, error: message }
Failure(db, op, message) ==
  [db |-> db, result |-> [op |-> op, ok |-> FALSE, error |-> message]]

\* the normal return of every handler: { success: true, error: null }
Success(db, op) ==
  [db |-> db, result |-> [op |-> op, ok |-> TRUE, error |-> "null"]]

HistoryRow(accountId, balance, change, changeType, refId, refType) ==
  [account_id |-> accountId, balance |-> balance, change_amount |-> change,
   change_type |-> changeType, reference_id |-> refId,
   reference_type |-> refType]

(***************************************************************************)
(* convex/accounts.ts                                                      *)
(***************************************************************************)
\* createAccount without the initial balance history row
createAccount_NoInitialRow(db, args, accountNumber) ==
  IF args.user_id \notin ExistingUsers
  THEN Failure(db, "createAccount", "User not found")
  ELSE IF accountNumber = Undefined
  THEN Failure(db, "createAccount", "Failed to generate unique account number")
  ELSE
    LET balance == IF TruthyNum(args.balance) THEN Val(args.balance) ELSE 0
        status == IF args.status = Undefined THEN "active" ELSE Val(args.status)
        db1 == Insert(db, "accounts",
                 [user_id |-> args.user_id, balance |-> balance,
                  account_number |-> Val(accountNumber), status |-> status])
    IN Success(db1, "createAccount")

\* createAccount; accountNumber is the outcome of generateAccountNumber:
\* Def(n) for a number n no account holds, Undefined when it threw because
\* every candidate collided
createAccount(db, args, accountNumber) ==
  IF args.user_id \notin ExistingUsers
  THEN Failure(db, "createAccount", "User not found")
  ELSE IF accountNumber = Undefined
  THEN Failure(db, "createAccount", "Failed to generate unique account number")
  ELSE
    LET balance == IF TruthyNum(args.balance) THEN Val(args.balance) ELSE 0
        status == IF args.status = Undefined THEN "active" ELSE Val(args.status)
        accountId == db.nextId.accounts
        db1 == Insert(db, "accounts",
                 [user_id |-> args.user_id, balance |-> balance,
                  account_number |-> Val(accountNumber), status |-> status])
        db2 == InsertHistory(db1,
                 HistoryRow(accountId, balance, balance, "initial",
                            accountId, "account_creation"))
    IN Success(db2, "createAccount")

\* updateAccount; only balance and status are kept of the patched fields
updateAccount(db, args) ==
  IF args.accountId \notin DOMAIN db.accounts
  THEN Failure(db, "updateAccount", "Account not found")
  ELSE
    LET existingAccount == db.accounts[args.accountId]
        db1 == IF args.status # Undefined
               THEN [db EXCEPT !.accounts[args.accountId].status = Val(args.status)]
               ELSE db
        db2 == IF args.balance # Undefined
                  /\ Val(args.balance) # existingAccount.balance
               THEN PatchBalance(
                      InsertHistory(db1,
                        HistoryRow(args.accountId, Val(args.balance),
                                   Minus(Val(args.balance), existingAccount.balance),
                                   "adjustment", args.accountId,
                                   "manual_adjustment")),
                      args.accountId, Val(args.balance))
               ELSE db1
    IN Success(db2, "updateAccount")

(***************************************************************************)
(* convex/transactions.ts                                                  *)
(***************************************************************************)
\* SignedAmount without Math.abs: the sign of the argument is trusted
SignedAmount_Unsigned(amount, type) == IF type = "debit" THEN -amount ELSE amount

\* the sign of a stored amount is taken from the type
SignedAmount(amount, type) == IF type = "debit" THEN -Abs(amount) ELSE Abs(amount)

createTransaction(db, args) ==
  IF args.account_id \notin DOMAIN db.accounts
  THEN Failure(db, "createTransaction", "Account not found")
  ELSE
    LET account == db.accounts[args.account_id]
        pending == TruthyBool(args.pending)
        actualAmount == SignedAmount(args.amount, args.type)
        transactionId == db.nextId.transactions
        db1 == Insert(db, "transactions",
                 [account_id |-> args.account_id, amount |-> actualAmount,
                  type |-> args.type, pending |-> pending,
                  reference |-> args.reference])
        newBalance == Plus(account.balance, actualAmount)
        db2 == IF ~pending
               THEN InsertHistory(
                      PatchBalance(db1, args.account_id, newBalance),
                      HistoryRow(args.account_id, newBalance, actualAmount,
                                 "transaction", transactionId, "transaction"))
               ELSE db1
    IN Success(db2, "createTransaction")

\* the net balance change updateTransaction computes (lines 1283-1313)
BalanceChange(existingTransaction, updateData) ==
  LET flip == IF updateData.pending # Undefined
                 /\ Val(updateData.pending) # existingTransaction.pending
              THEN IF existingTransaction.pending
                   THEN existingTransaction.amount
                   ELSE -existingTransaction.amount
              ELSE 0
      newType == IF updateData.type # Undefined
                 THEN Val(updateData.type) ELSE existingTransaction.type
      newAmount == IF updateData.amount # Undefined
                   THEN Val(updateData.amount)
                   ELSE Abs(existingTransaction.amount)
      newActualAmount == SignedAmount(newAmount, newType)
  IN IF ~existingTransaction.pending
        /\ (updateData.amount # Undefined \/ updateData.type # Undefined)
        /\ newActualAmount # existingTransaction.amount
     THEN Minus(newActualAmount, existingTransaction.amount)
     ELSE flip

\* the patch updateTransaction applies to the transaction row (lines 1315-1339)
UpdateObject(existingTransaction, updateData) ==
  LET type == IF updateData.type # Undefined
              THEN Val(updateData.type) ELSE existingTransaction.type
  IN [account_id |-> existingTransaction.account_id,
      amount |-> IF updateData.amount # Undefined
                 THEN SignedAmount(Val(updateData.amount), type)
                 ELSE existingTransaction.amount,
      type |-> type,
      pending |-> IF updateData.pending # Undefined
                  THEN Val(updateData.pending) ELSE existingTransaction.pending,
      reference |-> IF updateData.reference # Undefined
                    THEN updateData.reference
                    ELSE existingTransaction.reference]

updateTransaction(db, args) ==
  IF args.transactionId \notin DOMAIN db.transactions
  THEN Failure(db, "updateTransaction", "Transaction not found")
  ELSE
    LET existingTransaction == db.transactions[args.transactionId]
    IN IF existingTransaction.account_id \notin DOMAIN db.accounts
       THEN Failure(db, "updateTransaction", "Account not found")
       ELSE
         LET account == db.accounts[existingTransaction.account_id]
             balanceChange == BalanceChange(existingTransaction, args)
             db1 == [db EXCEPT !.transactions[args.transactionId] =
                       UpdateObject(existingTransaction, args)]
             newBalance == Plus(account.balance, balanceChange)
             db2 == IF balanceChange # 0
                    THEN InsertHistory(
                           PatchBalance(db1, existingTransaction.account_id,
                                        newBalance),
                           HistoryRow(existingTransaction.account_id,
                                      newBalance, balanceChange,
                                      "transaction_update",
                                      args.transactionId, "transaction"))
                    ELSE db1
         IN Success(db2, "updateTransaction")

\* deleteTransaction reversing the amount of a pending transaction too
deleteTransaction_ReversesPending(db, args) ==
  IF args.transactionId \notin DOMAIN db.transactions
  THEN Failure(db, "deleteTransaction", "Transaction not found")
  ELSE
    LET transaction == db.transactions[args.transactionId]
    IN IF transaction.account_id \notin DOMAIN db.accounts
       THEN Failure(db, "deleteTransaction", "Account not found")
       ELSE
         LET account == db.accounts[transaction.account_id]
             newBalance == Minus(account.balance, transaction.amount)
             db1 == IF TRUE
                    THEN InsertHistory(
                           PatchBalance(db, transaction.account_id, newBalance),
                           HistoryRow(transaction.account_id, newBalance,
                                      -transaction.amount,
                                      "transaction_deletion",
                                      args.transactionId, "transaction"))
                    ELSE db
         IN Success(Delete(db1, "transactions", args.transactionId),
                    "deleteTransaction")

deleteTransaction(db, args) ==
  IF args.transactionId \notin DOMAIN db.transactions
  THEN Failure(db, "deleteTransaction", "Transaction not found")
  ELSE
    LET transaction == db.transactions[args.transactionId]
    IN IF transaction.account_id \notin DOMAIN db.accounts
       THEN Failure(db, "deleteTransaction", "Account not found")
       ELSE
         LET account == db.accounts[transaction.account_id]
             newBalance == Minus(account.balance, transaction.amount)
             db1 == IF ~transaction.pending
                    THEN InsertHistory(
                           PatchBalance(db, transaction.account_id, newBalance),
                           HistoryRow(transaction.account_id, newBalance,
                                      -transaction.amount,
                                      "transaction_deletion",
                                      args.transactionId, "transaction"))
                    ELSE db
         IN Success(Delete(db1, "transactions", args.transactionId),
                    "deleteTransaction")

(***************************************************************************)
(* convex/transfers.ts                                                     *)
(***************************************************************************)
\* const chars = 'ABCDEFGHIJKLMNOPQRSTUVWXYZ0123456789'
chars ==
  <<"A", "B", "C", "D", "E", "F", "G", "H", "I", "J", "K", "L", "M",
    "N", "O", "P", "Q", "R", "S", "T", "U", "V", "W", "X", "Y", "Z",
    "0", "1", "2", "3", "4", "5", "6", "7", "8", "9">>

RefLength == 12

\* ReferenceLoop with a hyphen after every fourth character, the last too
RECURSIVE ReferenceLoop_TrailingDash(_, _, _)
ReferenceLoop_TrailingDash(draws, i, acc) ==
  IF i >= RefLength THEN acc
  ELSE LET withChar == Append(acc, chars[draws[i + 1] + 1])
           withDash == IF i % 4 = 3
                       THEN Append(withChar, "-") ELSE withChar
       IN ReferenceLoop_TrailingDash(draws, i + 1, withDash)

\* the loop of generateReferenceCode from index i on; draws[i + 1] is
\* Math.floor(Math.random() * chars.length) of iteration i
RECURSIVE ReferenceLoop(_, _, _)
ReferenceLoop(draws, i, acc) ==
  IF i >= RefLength THEN acc
  ELSE LET withChar == Append(acc, chars[draws[i + 1] + 1])
           withDash == IF i % 4 = 3 /\ i < RefLength - 1
                       THEN Append(withChar, "-") ELSE withChar
       IN ReferenceLoop(draws, i + 1, withDash)

\* a reference code is the sequence of its characters
generateReferenceCode(draws) == ReferenceLoop(draws, 0, <<>>)

\* the random outcomes considered: every draw 0 ("A") or every draw 35 ("9")
ZeroDraws == [i \in 1..RefLength |-> 0]
RefDraws == {ZeroDraws, [i \in 1..RefLength |-> 35]}
RefCodes == {generateReferenceCode(d) : d \in RefDraws}

\* TransferError with the funds test made before the status tests
TransferError_FundsBeforeStatus(db, args) ==
  IF args.amount <= 0 THEN "Transfer amount must be positive"
  ELSE IF args.from_account_id \notin DOMAIN db.accounts
  THEN "Source account not found"
  ELSE IF args.to_account_id \notin DOMAIN db.accounts
  THEN "Destination account not found"
  ELSE IF db.accounts[args.from_account_id].balance < args.amount
  THEN "Insufficient funds"
  ELSE IF db.accounts[args.from_account_id].status # "active"
  THEN "Source account is not active"
  ELSE IF db.accounts[args.to_account_id].status # "active"
  THEN "Destination account is not active"
  ELSE "null"

\* TransferError without the comparison of the source balance with the amount
TransferError_NoFundsCheck(db, args) ==
  IF args.amount <= 0 THEN "Transfer amount must be positive"
  ELSE IF args.from_account_id \notin DOMAIN db.accounts
  THEN "Source account not found"
  ELSE IF args.to_account_id \notin DOMAIN db.accounts
  THEN "Destination account not found"
  ELSE IF db.accounts[args.from_account_id].status # "active"
  THEN "Source account is not active"
  ELSE IF db.accounts[args.to_account_id].status # "active"
  THEN "Destination account is not active"
  ELSE "null"

\* the validations of executeTransfer, in order (lines 1501-1528):
\* the message of the first one that fails, "null" when all pass
TransferError(db, args) ==
  IF args.amount <= 0 THEN "Transfer amount must be positive"
  ELSE IF args.from_account_id \notin DOMAIN db.accounts
  THEN "Source account not found"
  ELSE IF args.to_account_id \notin DOMAIN db.accounts
  THEN "Destination account not found"
  ELSE IF db.accounts[args.from_account_id].status # "active"
  THEN "Source account is not active"
  ELSE IF db.accounts[args.to_account_id].status # "active"
  THEN "Destination account is not active"
  ELSE IF db.accounts[args.from_account_id].balance < args.amount
  THEN "Insufficient funds"
  ELSE "null"

\* TransferWrites with the destination balance patch left out
TransferWrites_NoCredit(db, args, referenceCode) ==
  LET fromAccount == db.accounts[args.from_account_id]
      toAccount == db.accounts[args.to_account_id]
      transferType == IF args.type = Undefined THEN "internal" ELSE Val(args.type)
      transferId == db.nextId.transfers
      db1 == Insert(db, "transfers",
               [from_account_id |-> args.from_account_id,
                to_account_id |-> args.to_account_id,
                amount |-> args.amount, status |-> "completed",
                reference_code |-> referenceCode, type |-> transferType])
      db2 == Insert(db1, "transactions",
               [account_id |-> args.from_account_id, amount |-> -args.amount,
                type |-> "debit", pending |-> FALSE,
                reference |-> Def(referenceCode)])
      db3 == Insert(db2, "transactions",
               [account_id |-> args.to_account_id, amount |-> args.amount,
                type |-> "credit", pending |-> FALSE,
                reference |-> Def(referenceCode)])
      newFromBalance == Minus(fromAccount.balance, args.amount)
      newToBalance == Plus(toAccount.balance, args.amount)
      db4 == PatchBalance(db3, args.from_account_id, newFromBalance)
      db6 == InsertHistory(db4,
               HistoryRow(args.from_account_id, newFromBalance, -args.amount,
                          "transfer", transferId, "transfer"))
  IN InsertHistory(db6,
       HistoryRow(args.to_account_id, newToBalance, args.amount,
                  "transfer", transferId, "transfer"))

\* the writes of executeTransfer once the validations passed (lines 1530-1608)
TransferWrites(db, args, referenceCode) ==
  LET fromAccount == db.accounts[args.from_account_id]
      toAccount == db.accounts[args.to_account_id]
      transferType == IF args.type = Undefined THEN "internal" ELSE Val(args.type)
      transferId == db.nextId.transfers
      db1 == Insert(db, "transfers",
               [from_account_id |-> args.from_account_id,
                to_account_id |-> args.to_account_id,
                amount |-> args.amount, status |-> "completed",
                reference_code |-> referenceCode, type |-> transferType])
      db2 == Insert(db1, "transactions",
               [account_id |-> args.from_account_id, amount |-> -args.amount,
                type |-> "debit", pending |-> FALSE,
                reference |-> Def(referenceCode)])
      db3 == Insert(db2, "transactions",
               [account_id |-> args.to_account_id, amount |-> args.amount,
                type |-> "credit", pending |-> FALSE,
                reference |-> Def(referenceCode)])
      newFromBalance == Minus(fromAccount.balance, args.amount)
      newToBalance == Plus(toAccount.balance, args.amount)
      db4 == PatchBalance(db3, args.from_account_id, newFromBalance)
      db5 == PatchBalance(db4, args.to_account_id, newToBalance)
      db6 == InsertHistory(db5,
               HistoryRow(args.from_account_id, newFromBalance, -args.amount,
                          "transfer", transferId, "transfer"))
  IN InsertHistory(db6,
       HistoryRow(args.to_account_id, newToBalance, args.amount,
                  "transfer", transferId, "transfer"))

\* executeTransfer with the funds check made after the transfer row is
\* inserted
executeTransfer_LateFundsCheck(db, args, referenceCode) ==
  IF TransferError(db, args) = "Insufficient funds"
  THEN Failure(Insert(db, "transfers",
                 [from_account_id |-> args.from_account_id,
                  to_account_id |-> args.to_account_id,
                  amount |-> args.amount, status |-> "completed",
                  reference_code |-> referenceCode,
                  type |-> IF args.type = Undefined
                           THEN "internal" ELSE Val(args.type)]),
               "executeTransfer", "Insufficient funds")
  ELSE IF TransferError(db, args) # "null"
  THEN Failure(db, "executeTransfer", TransferError(db, args))
  ELSE Success(TransferWrites(db, args, referenceCode), "executeTransfer")

executeTransfer(db, args, referenceCode) ==
  IF TransferError(db, args) # "null"
  THEN Failure(db, "executeTransfer", TransferError(db, args))
  ELSE Success(TransferWrites(db, args, referenceCode), "executeTransfer")

\* cancelTransfer letting a completed transfer through as well
cancelTransfer_AllowsCompleted(db, args) ==
  IF args.transferId \notin DOMAIN db.transfers
  THEN Failure(db, "cancelTransfer", "Transfer not found")
  ELSE IF db.transfers[args.transferId].status \notin {"pending", "completed"}
  THEN Failure(db, "cancelTransfer", "Only pending transfers can be cancelled")
  ELSE Success([db EXCEPT !.transfers[args.transferId].status = "cancelled"],
               "cancelTransfer")

\* cancelTransfer writing the status before it tests that the transfer is
\* pending
cancelTransfer_PatchFirst(db, args) ==
  IF args.transferId \notin DOMAIN db.transfers
  THEN Failure(db, "cancelTransfer", "Transfer not found")
  ELSE IF db.transfers[args.transferId].status # "pending"
  THEN Failure([db EXCEPT !.transfers[args.transferId].status = "cancelled"],
               "cancelTransfer", "Only pending transfers can be cancelled")
  ELSE Success([db EXCEPT !.transfers[args.transferId].status = "cancelled"],
               "cancelTransfer")

cancelTransfer(db, args) ==
  IF args.transferId \notin DOMAIN db.transfers
  THEN Failure(db, "cancelTransfer", "Transfer not found")
  ELSE IF db.transfers[args.transferId].status # "pending"
  THEN Failure(db, "cancelTransfer", "Only pending transfers can be cancelled")
  ELSE Success([db EXCEPT !.transfers[args.transferId].status = "cancelled"],
               "cancelTransfer")

\* updateTransferStatus refusing to change a cancelled transfer
updateTransferStatus_CancelledIsFinal(db, args) ==
  IF args.transferId \notin DOMAIN db.transfers
  THEN Failure(db, "updateTransferStatus", "Transfer not found")
  ELSE IF db.transfers[args.transferId].status = "cancelled"
  THEN Failure(db, "updateTransferStatus", "Transfer is cancelled")
  ELSE Success([db EXCEPT !.transfers[args.transferId].status = args.status],
               "updateTransferStatus")

updateTransferStatus(db, args) ==
  IF args.transferId \notin DOMAIN db.transfers
  THEN Failure(db, "updateTransferStatus", "Transfer not found")
  ELSE Success([db EXCEPT !.transfers[args.transferId].status = args.status],
               "updateTransferStatus")

(***************************************************************************)
(* convex/admin.ts                                                         *)
(***************************************************************************)
\* transactionAmount of one bulk iteration (lines 574-580):
\* Math.round(x * 100) / 100 rounds to the smallest amount, and multiplier
\* is 0.1 + Math.random() * 1.9 in tenths
TransactionAmount(args, multiplier) ==
  IF TruthyBool(args.randomAmounts)
  THEN MathRound(args.amount * multiplier, 10)
  ELSE args.amount

\* BulkLoop with the amount of the first transaction left out of totalAmount
RECURSIVE BulkLoop_SkipsFirst(_, _, _, _, _)
BulkLoop_SkipsFirst(db, args, multipliers, i, totalAmount) ==
  IF i >= Val(args.bulkTransactions)
  THEN [db |-> db, totalAmount |-> totalAmount]
  ELSE
    LET transactionAmount == TransactionAmount(args, multipliers[i + 1])
        actualAmount == IF args.type = "add"
                        THEN transactionAmount ELSE -transactionAmount
        transactionType == IF args.type = "add" THEN "credit" ELSE "debit"
        db1 == Insert(db, "transactions",
                 [account_id |-> args.accountId, amount |-> actualAmount,
                  type |-> transactionType, pending |-> FALSE,
                  reference |-> args.reference])
    IN BulkLoop_SkipsFirst(db1, args, multipliers, i + 1,
                           IF i = 0 THEN totalAmount
                           ELSE Plus(totalAmount, actualAmount))

\* the bulk loop (lines 573-602) from iteration i on: the database and
\* totalAmount after the last iteration
RECURSIVE BulkLoop(_, _, _, _, _)
BulkLoop(db, args, multipliers, i, totalAmount) ==
  IF i >= Val(args.bulkTransactions)
  THEN [db |-> db, totalAmount |-> totalAmount]
  ELSE
    LET transactionAmount == TransactionAmount(args, multipliers[i + 1])
        actualAmount == IF args.type = "add"
                        THEN transactionAmount ELSE -transactionAmount
        transactionType == IF args.type = "add" THEN "credit" ELSE "debit"
        db1 == Insert(db, "transactions",
                 [account_id |-> args.accountId, amount |-> actualAmount,
                  type |-> transactionType, pending |-> FALSE,
                  reference |-> args.reference])
    IN BulkLoop(db1, args, multipliers, i + 1,
                Plus(totalAmount, actualAmount))

\* updateAccountBalance refusing, in single mode, a removal the balance does
\* not cover
updateAccountBalance_FundsCheck(db, args, multipliers) ==
  IF args.accountId \notin DOMAIN db.accounts
  THEN Failure(db, "updateAccountBalance", "Account not found")
  ELSE
    LET account == db.accounts[args.accountId]
    IN IF TruthyBool(args.isBulk) /\ TruthyNum(args.bulkTransactions)
       THEN
         LET loop == BulkLoop(db, args, multipliers, 0, 0)
             newBalance == Plus(account.balance, loop.totalAmount)
             db1 == PatchBalance(loop.db, args.accountId, newBalance)
             db2 == InsertHistory(db1,
                      HistoryRow(args.accountId, newBalance, loop.totalAmount,
                                 "bulk_adjustment", args.accountId,
                                 "admin_bulk_adjustment"))
         IN Success(db2, "updateAccountBalance")
       ELSE IF args.type = "remove" /\ account.balance < args.amount
       THEN Failure(db, "updateAccountBalance", "Insufficient funds")
       ELSE
         LET actualAmount == IF args.type = "add"
                             THEN args.amount ELSE -args.amount
             transactionType == IF args.type = "add" THEN "credit" ELSE "debit"
             transactionId == db.nextId.transactions
             db1 == Insert(db, "transactions",
                      [account_id |-> args.accountId, amount |-> actualAmount,
                       type |-> transactionType, pending |-> FALSE,
                       reference |-> args.reference])
             newBalance == Plus(account.balance, actualAmount)
             db2 == PatchBalance(db1, args.accountId, newBalance)
             db3 == InsertHistory(db2,
                      HistoryRow(args.accountId, newBalance, actualAmount,
                                 "admin_adjustment", transactionId,
                                 "transaction"))
         IN Success(db3, "updateAccountBalance")

updateAccountBalance(db, args, multipliers) ==
  IF args.accountId \notin DOMAIN db.accounts
  THEN Failure(db, "updateAccountBalance", "Account not found")
  ELSE
    LET account == db.accounts[args.accountId]
    IN IF TruthyBool(args.isBulk) /\ TruthyNum(args.bulkTransactions)
       THEN
         LET loop == BulkLoop(db, args, multipliers, 0, 0)
             newBalance == Plus(account.balance, loop.totalAmount)
             db1 == PatchBalance(loop.db, args.accountId, newBalance)
             db2 == InsertHistory(db1,
                      HistoryRow(args.accountId, newBalance, loop.totalAmount,
                                 "bulk_adjustment", args.accountId,
                                 "admin_bulk_adjustment"))
         IN Success(db2, "updateAccountBalance")
       ELSE
         LET actualAmount == IF args.type = "add"
                             THEN args.amount ELSE -args.amount
             transactionType == IF args.type = "add" THEN "credit" ELSE "debit"
             transactionId == db.nextId.transactions
             db1 == Insert(db, "transactions",
                      [account_id |-> args.accountId, amount |-> actualAmount,
                       type |-> transactionType, pending |-> FALSE,
                       reference |-> args.reference])
             newBalance == Plus(account.balance, actualAmount)
             db2 == PatchBalance(db1, args.accountId, newBalance)
             db3 == InsertHistory(db2,
                      HistoryRow(args.accountId, newBalance, actualAmount,
                                 "admin_adjustment", transactionId,
                                 "transaction"))
         IN Success(db3, "updateAccountBalance")

(***************************************************************************)
(* The state machine: one action per mutation.                             *)
(***************************************************************************)
\* the clients whose mutations may be in flight at the same time, and the
\* call slot of a client that has not called yet
MaxClients == 2
Clients == 1..MaxClients
NoCall == [pc |-> "idle", call |-> Undefined, snapshot |-> Undefined, ok |-> Undefined]

EmptyTable == [i \in {} |-> {}]

Init ==
  /\ accounts = EmptyTable
  /\ transactions = EmptyTable
  /\ transfers = EmptyTable
  /\ history = <<>>
  /\ nextId = [accounts |-> 1, transactions |-> 1, transfers |-> 1]
  /\ calls = [c \in Clients |-> NoCall]

\* the tables stay within the bounds of the model
WithinBounds(db) ==
  /\ db.nextId.accounts - 1 <= MaxAccounts
  /\ db.nextId.transactions - 1 <= MaxTx
  /\ db.nextId.transfers - 1 <= MaxTransfers
  /\ Len(db.history) <= MaxHist

\* the store takes the tables a committed mutation leaves behind
CommitDb(db) ==
  /\ WithinBounds(db)
  /\ accounts' = db.accounts
  /\ transactions' = db.transactions
  /\ transfers' = db.transfers
  /\ history' = db.history
  /\ nextId' = db.nextId

\* the mutation commits what the handler wrote; r.result goes to the caller
Commit(r) ==
  /\ CommitDb(r.db)
  /\ calls' = calls

\* the outcomes of generateAccountNumber considered: the least number no
\* account holds, or a throw (Undefined) after maxAttempts candidates that
\* were all taken
AccountNumbers == 1..MaxAccounts
FreeNumbers(db) ==
  {m \in AccountNumbers :
     \A a \in DOMAIN db.accounts : db.accounts[a].account_number # m}
AccountNumberOutcomes(db) ==
  {Def(n) : n \in {m \in FreeNumbers(db) : \A k \in FreeNumbers(db) : m <= k}}
  \cup (IF DOMAIN db.accounts # {} THEN {Undefined} ELSE {})

CreateAccount(user, balance, status, accountNumber) ==
  Commit(createAccount(Db,
    [user_id |-> user, balance |-> balance, status |-> status], accountNumber))

UpdateAccount(a, balance, status) ==
  Commit(updateAccount(Db,
    [accountId |-> a, balance |-> balance, status |-> status]))

CreateTransaction(a, amount, type, pending, reference) ==
  Commit(createTransaction(Db,
    [account_id |-> a, amount |-> amount, type |-> type,
     pending |-> pending, reference |-> reference]))

UpdateTransaction(t, amount, type, pending, reference) ==
  Commit(updateTransaction(Db,
    [transactionId |-> t, amount |-> amount, type |-> type,
     pending |-> pending, reference |-> reference]))

DeleteTransaction(t) ==
  Commit(deleteTransaction(Db, [transactionId |-> t]))

ExecuteTransfer(from, to, amount, type, referenceCode) ==
  Commit(executeTransfer(Db,
    [from_account_id |-> from, to_account_id |-> to, amount |-> amount,
     type |-> type], referenceCode))

CancelTransfer(t) ==
  Commit(cancelTransfer(Db, [transferId |-> t]))

UpdateTransferStatus(t, status) ==
  Commit(updateTransferStatus(Db, [transferId |-> t, status |-> status]))

UpdateAccountBalance(a, amount, type, isBulk, bulkTransactions, randomAmounts, multipliers) ==
  Commit(updateAccountBalance(Db,
    [accountId |-> a, amount |-> amount, type |-> type, isBulk |-> isBulk,
     bulkTransactions |-> bulkTransactions, randomAmounts |-> randomAmounts,
     reference |-> Undefined], multipliers))

OptAmountArgs == {Undefined} \cup {Def(x) : x \in AmountArgs}
OptTypeArgs == {Undefined} \cup {Def(x) : x \in TypeArgs}
TransferStatuses == {"pending", "completed", "failed", "cancelled"}
AccountStatusArgs == {Undefined, Def("active"), Def("inactive")}
OverrideArgs == {Undefined, Def(1)}
AdjustTypes == {"add", "remove"}

\* the ways updateAccountBalance is called: single mode, and bulk mode with
\* a count and the Math.random() outcomes the loop consumes
AdjustModes ==
  {[isBulk |-> Undefined, bulkTransactions |-> Undefined,
    randomAmounts |-> Undefined, multipliers |-> <<>>]}
  \cup {[isBulk |-> Def(TRUE), bulkTransactions |-> Def(n),
         randomAmounts |-> Undefined, multipliers |-> [i \in 1..n |-> 10]] :
          n \in 0..MaxBulk}
  \cup {[isBulk |-> Def(TRUE), bulkTransactions |-> Def(n),
         randomAmounts |-> Def(TRUE), multipliers |-> ms] :
          n \in 1..MaxBulk, ms \in UNION {[1..k -> Multipliers] : k \in 1..MaxBulk}}

(***************************************************************************)
(* Every mutation, called with every argument.                             *)
(***************************************************************************)
Next ==
  \/ \E u \in UserIds, b \in BalanceArgs, s \in StatusArgs :
       \E n \in AccountNumberOutcomes(Db) : CreateAccount(u, b, s, n)
  \/ \E a \in AccountIds, b \in OverrideArgs, s \in AccountStatusArgs :
       UpdateAccount(a, b, s)
  \/ \E a \in AccountIds, x \in AmountArgs, ty \in TypeArgs,
        p \in PendingArgs, r \in {Undefined} \cup {Def(c) : c \in RefCodes} :
       CreateTransaction(a, x, ty, p, r)
  \/ \E t \in TransactionIds, x \in OptAmountArgs, ty \in OptTypeArgs,
        p \in PendingArgs, r \in {Undefined} \cup {Def(c) : c \in RefCodes} :
       UpdateTransaction(t, x, ty, p, r)
  \/ \E t \in TransactionIds : DeleteTransaction(t)
  \/ \E f \in AccountIds, t \in AccountIds, x \in TransferAmountArgs,
        ty \in TransferTypeArgs, c \in RefCodes :
       ExecuteTransfer(f, t, x, ty, c)
  \/ \E t \in TransferIds : CancelTransfer(t)
  \/ \E t \in TransferIds, s \in TransferStatuses : UpdateTransferStatus(t, s)
  \/ \E a \in AccountIds, x \in AmountArgs, ty \in AdjustTypes,
        m \in AdjustModes :
       /\ Len(m.multipliers) = (IF m.bulkTransactions = Undefined
                                THEN 0 ELSE Val(m.bulkTransactions))
       /\ UpdateAccountBalance(a, x, ty, m.isBulk, m.bulkTransactions,
                               m.randomAmounts, m.multipliers)

Spec == Init /\ [][Next]_vars

(***************************************************************************)
(* The transaction ledger on one account: the account is opened, then      *)
(* transactions are posted, edited and deleted and the balance overridden. *)
(***************************************************************************)
OpenAccount ==
  \E b \in BalanceArgs :
    accounts = EmptyTable /\ CreateAccount("u1", b, Undefined, Def(1))

\* the next state stays within the bounds of the one-account specifications
LedgerLimit ==
  /\ nextId'.transactions - 1 <= MaxLedgerTx
  /\ Len(history') <= MaxLedgerHist

NextLedger ==
  \/ OpenAccount
  \/ \E a \in AccountIds, x \in AmountArgs, ty \in TypeArgs, p \in PendingArgs :
       CreateTransaction(a, x, ty, p, Undefined) /\ LedgerLimit
  \/ \E t \in TransactionIds, x \in OptAmountArgs, ty \in OptTypeArgs,
        p \in PendingArgs :
       UpdateTransaction(t, x, ty, p, Undefined) /\ LedgerLimit
  \/ \E t \in TransactionIds : DeleteTransaction(t) /\ LedgerLimit
  \/ \E a \in AccountIds, b \in OverrideArgs :
       UpdateAccount(a, b, Undefined) /\ LedgerLimit

SpecLedger == Init /\ [][NextLedger]_vars

(***************************************************************************)
(* The balance adjuster on one account.                                    *)
(***************************************************************************)
NextAdjust ==
  \/ OpenAccount
  \/ \E a \in AccountIds, x \in AmountArgs, ty \in AdjustTypes,
        m \in AdjustModes :
       /\ Len(m.multipliers) = (IF m.bulkTransactions = Undefined
                                THEN 0 ELSE Val(m.bulkTransactions))
       /\ UpdateAccountBalance(a, x, ty, m.isBulk, m.bulkTransactions,
                               m.randomAmounts, m.multipliers)
       /\ LedgerLimit
  \/ \E t \in TransactionIds : DeleteTransaction(t) /\ LedgerLimit

SpecAdjust == Init /\ [][NextAdjust]_vars

(***************************************************************************)
(* The transfer engine on two accounts.                                    *)
(***************************************************************************)
MaxEngineTransfers == 1

\* the next state stays within the bounds of the transfer specification
EngineLimit ==
  /\ nextId'.transfers - 1 <= MaxEngineTransfers
  /\ Len(history') <= MaxAccounts + 2 * MaxEngineTransfers

NextTransfers ==
  \/ \E u \in UserIds, b \in BalanceArgs, s \in StatusArgs :
       \E n \in AccountNumberOutcomes(Db) :
         CreateAccount(u, b, s, n) /\ EngineLimit
  \/ \E a \in AccountIds, s \in AccountStatusArgs :
       UpdateAccount(a, Undefined, s)
  \/ \E f \in AccountIds, t \in AccountIds, x \in TransferAmountArgs,
        ty \in TransferTypeArgs, c \in RefCodes :
       ExecuteTransfer(f, t, x, ty, c) /\ EngineLimit
  \/ \E t \in TransferIds : CancelTransfer(t)
  \/ \E t \in TransferIds, s \in TransferStatuses : UpdateTransferStatus(t, s)
  \/ \E t \in TransactionIds : DeleteTransaction(t) /\ EngineLimit

SpecTransfers == Init /\ [][NextTransfers]_vars

(***************************************************************************)
(* Pending transactions on one account: transactions are posted pending    *)
(* and then only cleared and made pending again.                           *)
(***************************************************************************)
MaxFlips == 3

\* the amounts posted: small ones, and one whose sum with a small balance
\* needs more significant bits than a number has
RoundTripAmounts == {-1, 2, 2^(Precision + 1)}

NextRoundTrip ==
  \/ OpenAccount
  \/ \E a \in AccountIds, x \in RoundTripAmounts, ty \in TypeArgs :
       /\ CreateTransaction(a, x, ty, Def(TRUE), Undefined)
       /\ nextId'.transactions - 1 <= MaxLedgerTx
  \/ \E t \in TransactionIds, p \in {Def(TRUE), Def(FALSE)} :
       /\ UpdateTransaction(t, Undefined, Undefined, p, Undefined)
       /\ Len(history') <= 1 + MaxFlips

SpecRoundTrip == Init /\ [][NextRoundTrip]_vars

(***************************************************************************)
(* Quantities the properties speak of.                                     *)
(***************************************************************************)
\* the sum of balances over all accounts
TotalBalance(accts) ==
  SumOver([a \in DOMAIN accts |-> accts[a].balance], DOMAIN accts)

\* the sum of change_amount over the history rows of account a
HistorySum(a) ==
  SumSeq([i \in 1..Len(history) |->
            IF history[i].account_id = a THEN history[i].change_amount ELSE 0])

\* the sum of change_amount over the rows of account a with one change_type
HistorySumOf(a, changeType) ==
  SumSeq([i \in 1..Len(history) |->
            IF history[i].account_id = a /\ history[i].change_type = changeType
            THEN history[i].change_amount ELSE 0])

\* the sum of the stored amounts of the non-pending transactions of account a
PostedSum(a) ==
  LET posted == {t \in DOMAIN transactions :
                   transactions[t].account_id = a /\ ~transactions[t].pending}
  IN SumOver([t \in posted |-> transactions[t].amount], posted)

TransferArgs(f, t, x, ty) ==
  [from_account_id |-> f, to_account_id |-> t, amount |-> x, type |-> ty]

TransferCalls ==
  {TransferArgs(f, t, x, ty) :
     f \in AccountIds, t \in AccountIds, x \in TransferAmountArgs,
     ty \in TransferTypeArgs}

\* the transactions that carry reference code c
Carrying(c) ==
  {t \in DOMAIN transactions : transactions[t].reference = Def(c)}

(***************************************************************************)
(* Properties.                                                             *)
(***************************************************************************)
\* C1: every executeTransfer call that returns success, a call from an
\* account to itself included, leaves the sum of balances over all accounts
\* as it found it.
C1_Conservation ==
  [][vars' # vars =>
     \A f \in AccountIds, t \in AccountIds, x \in TransferAmountArgs,
        ty \in TransferTypeArgs, c \in RefCodes :
       (/\ executeTransfer(Db, TransferArgs(f, t, x, ty), c).result.ok
        /\ ExecuteTransfer(f, t, x, ty, c))
       => TotalBalance(accounts') = TotalBalance(accounts)]_vars

\* C2: a successful executeTransfer of A from X to another account Y takes
\* exactly A from X, adds exactly A to Y, leaves every other account as it
\* was, inserts one completed transfer, one non-pending debit of -A on X and
\* one non-pending credit of +A on Y carrying its reference code, and
\* appends exactly two history rows, -A on X and then +A on Y.
C2_TransferEffect ==
  [][vars' # vars =>
     \A f \in AccountIds, t \in AccountIds, x \in TransferAmountArgs,
        ty \in TransferTypeArgs, c \in RefCodes :
       (/\ f # t
        /\ executeTransfer(Db, TransferArgs(f, t, x, ty), c).result.ok
        /\ ExecuteTransfer(f, t, x, ty, c))
       =>
       LET newTransfers == DOMAIN transfers' \ DOMAIN transfers
           newTx == DOMAIN transactions' \ DOMAIN transactions
           n == Len(history)
       IN /\ DOMAIN accounts' = DOMAIN accounts
          /\ accounts'[f].balance = accounts[f].balance - x
          /\ accounts'[t].balance = accounts[t].balance + x
          /\ \A a \in DOMAIN accounts \ {f, t} : accounts'[a] = accounts[a]
          /\ Cardinality(newTransfers) = 1
          /\ \A tr \in DOMAIN transfers : transfers'[tr] = transfers[tr]
          /\ \A tr \in newTransfers :
               /\ transfers'[tr].status = "completed"
               /\ transfers'[tr].from_account_id = f
               /\ transfers'[tr].to_account_id = t
               /\ transfers'[tr].amount = x
               /\ transfers'[tr].reference_code = c
          /\ Cardinality(newTx) = 2
          /\ \A id \in DOMAIN transactions : transactions'[id] = transactions[id]
          /\ \E d \in newTx, k \in newTx :
               /\ transactions'[d] =
                    [account_id |-> f, amount |-> -x, type |-> "debit",
                     pending |-> FALSE, reference |-> Def(c)]
               /\ transactions'[k] =
                    [account_id |-> t, amount |-> x, type |-> "credit",
                     pending |-> FALSE, reference |-> Def(c)]
          /\ Len(history') = n + 2
          /\ SubSeq(history', 1, n) = history
          /\ history'[n + 1].account_id = f
          /\ history'[n + 1].change_amount = -x
          /\ history'[n + 2].account_id = t
          /\ history'[n + 2].change_amount = x]_vars

\* a transfer between two different accounts has completed, with a third
\* account standing by
C2_Witness ==
  /\ Cardinality(DOMAIN accounts) >= 3
  /\ \E tr \in DOMAIN transfers :
       /\ transfers[tr].from_account_id # transfers[tr].to_account_id
       /\ Cardinality(Carrying(transfers[tr].reference_code)) = 2
  /\ Len(history) >= 2
  /\ history[Len(history)].change_type = "transfer"
  /\ history[Len(history)].change_amount > 0

\* C3: in every reachable state the change_amount of the history rows of an
\* existing account, its "initial" row included, add up to its balance.
C3_HistoryReconstructs ==
  \A a \in DOMAIN accounts : HistorySum(a) = accounts[a].balance

\* C4: in every reachable state the balance of an account is its initial
\* balance plus the stored amounts of its non-pending transactions plus the
\* net of the administrative overrides of updateAccount.
C4_BalanceIsPostedSum ==
  \A a \in DOMAIN accounts :
    accounts[a].balance =
      HistorySumOf(a, "initial") + PostedSum(a) + HistorySumOf(a, "adjustment")

\* C5: whenever executeTransfer returns failure it leaves the accounts,
\* transactions, transfers and history tables exactly as it found them.
C5_NoPartialTransfer ==
  \A args \in TransferCalls, c \in RefCodes :
    LET r == executeTransfer(Db, args, c)
    IN ~r.result.ok => r.db = Db

\* after a completed transfer, calls fail for want of funds, for an inactive
\* account, for a missing account and for a non-positive amount
C5_Witness ==
  /\ DOMAIN transfers # {}
  /\ \A e \in {"Transfer amount must be positive", "Source account not found",
               "Destination account not found", "Source account is not active",
               "Destination account is not active", "Insufficient funds"} :
       \E args \in TransferCalls : TransferError(Db, args) = e

\* C6: every updateTransaction call on an existing transaction changes the
\* balance by newApplied - oldApplied (0 for a pending transaction, its
\* stored amount otherwise), appends exactly one "transaction_update" history
\* row with that change when it is not zero, and leaves balance and history
\* alone when it is zero.
C6_NetAdjustment ==
  [][\A t \in DOMAIN transactions, x \in OptAmountArgs, ty \in OptTypeArgs,
        p \in PendingArgs :
       UpdateTransaction(t, x, ty, p, Undefined)
       =>
       LET a == transactions[t].account_id
           oldApplied == IF transactions[t].pending
                         THEN 0 ELSE transactions[t].amount
           newApplied == IF transactions'[t].pending
                         THEN 0 ELSE transactions'[t].amount
           d == newApplied - oldApplied
       IN /\ accounts'[a].balance = accounts[a].balance + d
          /\ IF d = 0
             THEN history' = history
             ELSE /\ Len(history') = Len(history) + 1
                  /\ SubSeq(history', 1, Len(history)) = history
                  /\ history'[Len(history')].change_amount = d
                  /\ history'[Len(history')].change_type = "transaction_update"
                  /\ history'[Len(history')].account_id = a]_vars

\* C7: posting a pending transaction leaves balance and history alone,
\* clearing it changes the balance by exactly its stored amount, making it
\* pending again takes that amount back, and however often transactions are
\* cleared and made pending again, once every transaction of an account is
\* pending again the balance is exactly what it was before they were posted.
C7_PendingRoundTrip ==
  /\ [](\A a \in DOMAIN accounts :
          (\A t \in DOMAIN transactions :
             transactions[t].account_id = a => transactions[t].pending)
          => accounts[a].balance = HistorySumOf(a, "initial"))
  /\ [][/\ \A a \in AccountIds, x \in RoundTripAmounts, ty \in TypeArgs :
             CreateTransaction(a, x, ty, Def(TRUE), Undefined)
             => accounts' = accounts /\ history' = history
        /\ \A t \in DOMAIN transactions, p \in {Def(TRUE), Def(FALSE)} :
             UpdateTransaction(t, Undefined, Undefined, p, Undefined)
             =>
             LET a == transactions[t].account_id
             IN /\ transactions'[t].amount = transactions[t].amount
                /\ accounts'[a].balance =
                     (IF transactions[t].pending = Val(p)
                      THEN accounts[a].balance
                      ELSE IF Val(p)
                      THEN Minus(accounts[a].balance, transactions[t].amount)
                      ELSE Plus(accounts[a].balance, transactions[t].amount))]_vars

\* C8: every bulk updateAccountBalance call with type "add", a count N >= 1
\* and a requested total T adds exactly T to the balance, with and without
\* randomAmounts.
C8_BulkTotal ==
  [][\A a \in DOMAIN accounts, x \in AmountArgs, m \in AdjustModes :
       (/\ m.isBulk = Def(TRUE)
        /\ m.bulkTransactions # Undefined
        /\ Val(m.bulkTransactions) >= 1
        /\ Len(m.multipliers) = Val(m.bulkTransactions)
        /\ x > 0
        /\ UpdateAccountBalance(a, x, "add", m.isBulk, m.bulkTransactions,
                                m.randomAmounts, m.multipliers))
       => accounts'[a].balance = accounts[a].balance + x]_vars

\* C9: in every reachable state a completed internal transfer has exactly
\* two transactions carrying its reference code, a debit on its source
\* account and a credit on its destination account.
C9_CompletedHasTwoLegs ==
  \A tr \in DOMAIN transfers :
    (transfers[tr].status = "completed" /\ transfers[tr].type = "internal")
    =>
    LET legs == Carrying(transfers[tr].reference_code)
    IN /\ Cardinality(legs) = 2
       /\ \E d \in legs :
            /\ transactions[d].type = "debit"
            /\ transactions[d].account_id = transfers[tr].from_account_id
       /\ \E k \in legs :
            /\ transactions[k].type = "credit"
            /\ transactions[k].account_id = transfers[tr].to_account_id

\* C10: in every reachable state the amount of a stored transaction is >= 0
\* when its type is "credit" and <= 0 when its type is "debit".
C10_SignAgreesWithType ==
  \A t \in DOMAIN transactions :
    /\ transactions[t].type = "credit" => transactions[t].amount >= 0
    /\ transactions[t].type = "debit" => transactions[t].amount <= 0

\* C11: every createTransaction call on an existing account stores a
\* transaction of amount |amount| for a credit and -|amount| for a debit;
\* when pending is false or omitted the balance grows by exactly that amount
\* and exactly one "transaction" history row naming the new transaction and
\* the new balance is appended; when pending is true neither the accounts
\* nor the history change.
C11_CreateTransactionEffect ==
  [][vars' # vars =>
     \A a \in DOMAIN accounts, x \in AmountArgs, ty \in TypeArgs,
        p \in PendingArgs :
       CreateTransaction(a, x, ty, p, Undefined)
       =>
       LET id == nextId.transactions
           signed == IF ty = "credit" THEN Abs(x) ELSE -Abs(x)
       IN /\ DOMAIN transactions' = DOMAIN transactions \cup {id}
          /\ id \notin DOMAIN transactions
          /\ \A t \in DOMAIN transactions : transactions'[t] = transactions[t]
          /\ transactions'[id] =
               [account_id |-> a, amount |-> signed, type |-> ty,
                pending |-> (p = Def(TRUE)), reference |-> Undefined]
          /\ IF p = Def(TRUE)
             THEN accounts' = accounts /\ history' = history
             ELSE /\ accounts' =
                       [accounts EXCEPT ![a].balance = accounts[a].balance + signed]
                  /\ history' =
                       Append(history,
                         [account_id |-> a, balance |-> accounts'[a].balance,
                          change_amount |-> signed, change_type |-> "transaction",
                          reference_id |-> id, reference_type |-> "transaction"])]_vars

\* a pending transaction stands next to a debit that was posted last with a
\* positive amount argument or a negative one
C11_Witness ==
  \E t \in DOMAIN transactions, u \in DOMAIN transactions :
    /\ transactions[t].pending
    /\ ~transactions[u].pending
    /\ transactions[u].type = "debit"
    /\ transactions[u].amount < 0
    /\ history[Len(history)].change_type = "transaction"
    /\ history[Len(history)].reference_id = u

\* C12: every deleteTransaction call on an existing transaction removes that
\* row and touches no other transaction; when the transaction was not
\* pending the balance of its account drops by exactly the stored amount and
\* exactly one "transaction_deletion" history row with the negated amount is
\* appended; when it was pending neither the accounts nor the history change.
C12_DeleteTransactionEffect ==
  [][vars' # vars =>
     \A t \in DOMAIN transactions :
       DeleteTransaction(t)
       =>
       LET a == transactions[t].account_id
           amount == transactions[t].amount
       IN /\ DOMAIN transactions' = DOMAIN transactions \ {t}
          /\ \A u \in DOMAIN transactions' : transactions'[u] = transactions[u]
          /\ IF transactions[t].pending
             THEN accounts' = accounts /\ history' = history
             ELSE /\ accounts' =
                       [accounts EXCEPT ![a].balance = accounts[a].balance - amount]
                  /\ history' =
                       Append(history,
                         [account_id |-> a, balance |-> accounts'[a].balance,
                          change_amount |-> -amount,
                          change_type |-> "transaction_deletion",
                          reference_id |-> t, reference_type |-> "transaction"])]_vars

\* a posted transaction has been deleted while another transaction stays
C12_Witness ==
  /\ Len(history) >= 2
  /\ history[Len(history)].change_type = "transaction_deletion"
  /\ history[Len(history)].change_amount # 0
  /\ history[Len(history)].reference_id \notin DOMAIN transactions
  /\ DOMAIN transactions # {}

\* C13: executeTransfer reports the first validation that fails in the order
\* amount <= 0, source missing, destination missing, source not active,
\* destination not active, source balance below the amount; it succeeds when
\* none fails, and the six reasons are six different messages.
C13_ValidationOrder ==
  LET reasons == <<"Transfer amount must be positive",
                   "Source account not found",
                   "Destination account not found",
                   "Source account is not active",
                   "Destination account is not active",
                   "Insufficient funds">>
  IN /\ Cardinality({reasons[i] : i \in 1..6}) = 6
     /\ \A args \in TransferCalls, c \in RefCodes :
          LET from == args.from_account_id
              to == args.to_account_id
              fails == [i \in 1..6 |->
                CASE i = 1 -> args.amount <= 0
                  [] i = 2 -> from \notin DOMAIN accounts
                  [] i = 3 -> to \notin DOMAIN accounts
                  [] i = 4 -> from \in DOMAIN accounts
                              /\ accounts[from].status # "active"
                  [] i = 5 -> to \in DOMAIN accounts
                              /\ accounts[to].status # "active"
                  [] i = 6 -> from \in DOMAIN accounts
                              /\ accounts[from].balance < args.amount]
              failing == {i \in 1..6 : fails[i]}
              r == executeTransfer(Db, args, c).result
          IN IF failing = {}
             THEN r.ok
             ELSE /\ ~r.ok
                  /\ \E i \in failing :
                       /\ \A j \in failing : i <= j
                       /\ r.error = reasons[i]

\* calls that fail several validations at once: an inactive source that is
\* also short of funds, and a non-positive amount from a missing account to
\* an inactive one
C13_Witness ==
  /\ \E a \in DOMAIN accounts :
       /\ accounts[a].status # "active"
       /\ accounts[a].balance < 2
       /\ \E b \in DOMAIN accounts : b # a /\ accounts[b].status = "active"
  /\ \E a \in AccountIds : a \notin DOMAIN accounts
  /\ DOMAIN transfers # {}

\* C14: whenever createTransaction, updateTransaction, deleteTransaction,
\* updateAccountBalance, cancelTransfer or updateTransferStatus returns
\* failure, the accounts, transactions, transfers and history tables are
\* exactly what they were before the call.
C14_FailuresLeaveState ==
  LET untouched(r) == ~r.result.ok => r.db = Db
  IN /\ \A a \in AccountIds, x \in AmountArgs, ty \in TypeArgs,
           p \in PendingArgs :
          untouched(createTransaction(Db,
            [account_id |-> a, amount |-> x, type |-> ty, pending |-> p,
             reference |-> Undefined]))
     /\ \A t \in TransactionIds, x \in OptAmountArgs, ty \in OptTypeArgs,
           p \in PendingArgs :
          untouched(updateTransaction(Db,
            [transactionId |-> t, amount |-> x, type |-> ty, pending |-> p,
             reference |-> Undefined]))
     /\ \A t \in TransactionIds :
          untouched(deleteTransaction(Db, [transactionId |-> t]))
     /\ \A a \in AccountIds, x \in AmountArgs, ty \in AdjustTypes,
           m \in AdjustModes :
          Len(m.multipliers) = (IF m.bulkTransactions = Undefined
                                THEN 0 ELSE Val(m.bulkTransactions))
          => untouched(updateAccountBalance(Db,
               [accountId |-> a, amount |-> x, type |-> ty,
                isBulk |-> m.isBulk, bulkTransactions |-> m.bulkTransactions,
                randomAmounts |-> m.randomAmounts, reference |-> Undefined],
               m.multipliers))
     /\ \A t \in TransferIds :
          untouched(cancelTransfer(Db, [transferId |-> t]))
     /\ \A t \in TransferIds, s \in TransferStatuses :
          untouched(updateTransferStatus(Db, [transferId |-> t, status |-> s]))

\* a state in which each of the six operations has a call that fails: an
\* account, a transaction and a transfer that do not exist next to ones that
\* do, and a transfer that is not pending
C14_Witness ==
  /\ DOMAIN accounts # {} /\ AccountIds \ DOMAIN accounts # {}
  /\ DOMAIN transactions # {} /\ TransactionIds \ DOMAIN transactions # {}
  /\ TransferIds \ DOMAIN transfers # {}
  /\ \E t \in DOMAIN transfers :
       /\ transfers[t].status # "pending"
       /\ ~cancelTransfer(Db, [transferId |-> t]).result.ok
  /\ \E t \in TransactionIds :
       ~deleteTransaction(Db, [transactionId |-> t]).result.ok

\* C15: cancelTransfer succeeds exactly on a transfer whose status is
\* "pending" and then sets the status to "cancelled" and nothing else; on a
\* completed, failed or cancelled transfer it fails and changes nothing; and
\* the transfer a successful executeTransfer has just created cannot be
\* cancelled.
C15_CancelOnlyPending ==
  /\ \A t \in DOMAIN transfers :
       LET r == cancelTransfer(Db, [transferId |-> t])
       IN IF transfers[t].status = "pending"
          THEN /\ r.result.ok
               /\ r.db = [Db EXCEPT !.transfers[t].status = "cancelled"]
          ELSE /\ ~r.result.ok
               /\ r.db = Db
  /\ \A args \in TransferCalls, c \in RefCodes :
       LET r == executeTransfer(Db, args, c)
       IN r.result.ok =>
            /\ nextId.transfers \in DOMAIN r.db.transfers
            /\ ~cancelTransfer(r.db, [transferId |-> nextId.transfers]).result.ok

\* a transfer made by executeTransfer has been set to "pending", so that it
\* can be cancelled, while another transfer can still be executed
C15_Witness ==
  /\ \E t \in DOMAIN transfers :
       /\ transfers[t].status = "pending"
       /\ Carrying(transfers[t].reference_code) # {}
  /\ \E args \in TransferCalls, c \in RefCodes :
       executeTransfer(Db, args, c).result.ok

(***************************************************************************)
(* All the mutations together on a small database.                         *)
(***************************************************************************)
MaxSmallAccounts == 2
MaxSmallHist == 4

\* the next state stays within the bounds of the small database
SmallLimit ==
  /\ nextId'.accounts - 1 <= MaxSmallAccounts
  /\ nextId'.transactions - 1 <= MaxLedgerTx
  /\ nextId'.transfers - 1 <= MaxEngineTransfers
  /\ Len(history') <= MaxSmallHist

NextSmall ==
  \/ \E n \in AccountNumberOutcomes(Db) :
       CreateAccount("u1", Def(2), Undefined, n) /\ SmallLimit
  \/ \E a \in AccountIds, b \in OverrideArgs :
       UpdateAccount(a, b, Undefined) /\ SmallLimit
  \/ \E a \in AccountIds, ty \in TypeArgs, p \in {Undefined, Def(TRUE)} :
       CreateTransaction(a, 2, ty, p, Undefined) /\ SmallLimit
  \/ \E t \in TransactionIds, x \in {Undefined, Def(-1)}, p \in PendingArgs :
       UpdateTransaction(t, x, Undefined, p, Undefined) /\ SmallLimit
  \/ \E t \in TransactionIds : DeleteTransaction(t) /\ SmallLimit
  \/ \E f \in AccountIds, t \in AccountIds :
       ExecuteTransfer(f, t, 1, Undefined, generateReferenceCode(ZeroDraws))
       /\ SmallLimit
  \/ \E t \in TransferIds : CancelTransfer(t)
  \/ \E t \in TransferIds, s \in {"pending", "failed"} :
       UpdateTransferStatus(t, s)
  \/ \E a \in AccountIds, ty \in AdjustTypes, m \in AdjustModes :
       /\ m.randomAmounts = Undefined
       /\ Len(m.multipliers) = (IF m.bulkTransactions = Undefined
                                THEN 0 ELSE Val(m.bulkTransactions))
       /\ UpdateAccountBalance(a, 2, ty, m.isBulk, m.bulkTransactions,
                               m.randomAmounts, m.multipliers)
       /\ SmallLimit

SpecSmall == Init /\ [][NextSmall]_vars

\* C16: the balance history is append-only: every step of createAccount,
\* createTransaction, updateTransaction, deleteTransaction, executeTransfer,
\* updateAccountBalance, updateAccount, cancelTransfer and
\* updateTransferStatus keeps every existing history row, unchanged and in
\* place, and at most adds rows after them.
C16_HistoryAppendOnly ==
  [][/\ Len(history') >= Len(history)
     /\ SubSeq(history', 1, Len(history)) = history]_vars

\* rows have been appended by an account creation, a posting, an edit and a
\* deletion, one after the other
C16_Witness ==
  /\ Len(history) >= 4
  /\ history[1].change_type = "initial"
  /\ \E i \in 2..Len(history) : history[i].change_type = "transaction_update"
  /\ history[Len(history)].change_type = "transaction_deletion"

(***************************************************************************)
(* Mutations in flight at the same time.  The store runs every mutation as *)
(* a transaction under optimistic concurrency control: the handler runs    *)
(* against the snapshot taken when it starts; at commit the store compares  *)
(* the documents the handler read with their committed versions, applies   *)
(* the handler's writes when none has changed, and otherwise runs the       *)
(* handler again from a fresh snapshot.                                     *)
(***************************************************************************)
\* a call a client may have in flight: an executeTransfer from account to
\* counterpart, or a createTransaction on account
ConcurrentCalls ==
  {[op |-> "executeTransfer", account |-> f, counterpart |-> t, amount |-> x, type |-> "internal"] :
     f \in 1..MaxSmallAccounts, t \in 1..MaxSmallAccounts, x \in {1, 2}}
  \cup
  {[op |-> "createTransaction", account |-> a, counterpart |-> a, amount |-> 1, type |-> ty] :
     a \in 1..MaxSmallAccounts, ty \in {"credit", "debit"}}

\* the handler of a call, run against database db
Run(call, db) ==
  IF call.op = "executeTransfer"
  THEN executeTransfer(db,
         [from_account_id |-> call.account, to_account_id |-> call.counterpart,
          amount |-> call.amount, type |-> Undefined],
         generateReferenceCode(ZeroDraws))
  ELSE createTransaction(db,
         [account_id |-> call.account, amount |-> call.amount,
          type |-> call.type, pending |-> Undefined, reference |-> Undefined])

\* the documents the handler of a call reads with ctx.db.get: the account
\* rows it names, as they are in db (Undefined for a missing one)
ReadSet(call, db) ==
  [a \in {call.account, call.counterpart} |->
     IF a \in DOMAIN db.accounts THEN Def(db.accounts[a]) ELSE Undefined]

\* Conflict with every read taken to be still current
Conflict_Never(call, snapshot, db) == FALSE

\* a document the call read has changed since its snapshot was taken
Conflict(call, snapshot, db) == ReadSet(call, snapshot) # ReadSet(call, db)

\* a history row appended in a transaction, with the ids of the rows the
\* transaction inserted moved to the ids the store gives them at commit
Rebase(row, dTransactions, dTransfers) ==
  IF row.reference_type = "transaction"
  THEN [row EXCEPT !.reference_id = @ + dTransactions]
  ELSE IF row.reference_type = "transfer"
  THEN [row EXCEPT !.reference_id = @ + dTransfers]
  ELSE row

\* the writes a handler made on its snapshot (the balances it patched, the
\* rows it inserted), applied to the committed database db
ApplyWrites(db, snapshot, after) ==
  LET dTransactions == db.nextId.transactions - snapshot.nextId.transactions
      dTransfers == db.nextId.transfers - snapshot.nextId.transfers
      newTransactions == DOMAIN after.transactions \ DOMAIN snapshot.transactions
      newTransfers == DOMAIN after.transfers \ DOMAIN snapshot.transfers
      newHistory == SubSeq(after.history, Len(snapshot.history) + 1, Len(after.history))
      patched == {a \in DOMAIN after.accounts \cap DOMAIN snapshot.accounts :
                    after.accounts[a].balance # snapshot.accounts[a].balance}
  IN [accounts |->
        [a \in DOMAIN db.accounts |->
           IF a \in patched
           THEN [db.accounts[a] EXCEPT !.balance = after.accounts[a].balance]
           ELSE db.accounts[a]],
      transactions |->
        db.transactions @@
        [t \in {n + dTransactions : n \in newTransactions} |->
           after.transactions[t - dTransactions]],
      transfers |->
        db.transfers @@
        [t \in {n + dTransfers : n \in newTransfers} |->
           after.transfers[t - dTransfers]],
      history |->
        db.history \o
        [i \in 1..Len(newHistory) |-> Rebase(newHistory[i], dTransactions, dTransfers)],
      nextId |->
        [accounts |-> db.nextId.accounts,
         transactions |-> db.nextId.transactions + Cardinality(newTransactions),
         transfers |-> db.nextId.transfers + Cardinality(newTransfers)]]

\* a client calls a mutation: the store starts the handler on a snapshot
Begin(c, call) ==
  /\ calls[c].pc = "idle"
  /\ calls' = [calls EXCEPT ![c] =
       [pc |-> "running", call |-> Def(call), snapshot |-> Def(Db), ok |-> Undefined]]
  /\ UNCHANGED <<accounts, transactions, transfers, history, nextId>>

\* the store finds a read of the running handler stale and runs it again
Retry(c) ==
  /\ calls[c].pc = "running"
  /\ Conflict(Val(calls[c].call), Val(calls[c].snapshot), Db)
  /\ calls' = [calls EXCEPT ![c].snapshot = Def(Db)]
  /\ UNCHANGED <<accounts, transactions, transfers, history, nextId>>

\* the store commits the running handler and the client gets its result
Finish(c) ==
  /\ calls[c].pc = "running"
  /\ ~Conflict(Val(calls[c].call), Val(calls[c].snapshot), Db)
  /\ LET r == Run(Val(calls[c].call), Val(calls[c].snapshot))
     IN /\ CommitDb(ApplyWrites(Db, Val(calls[c].snapshot), r.db))
        /\ calls' = [calls EXCEPT ![c].pc = "done", ![c].ok = Def(r.result.ok)]

\* the accounts exist before the clients start calling
ConcurrentSetup ==
  /\ \A c \in Clients : calls[c].pc = "idle"
  /\ nextId.accounts <= MaxSmallAccounts

NextConcurrent ==
  \/ \E b \in {Def(1), Def(2)}, n \in AccountNumberOutcomes(Db) :
       ConcurrentSetup /\ CreateAccount("u1", b, Undefined, n)
  \/ \E c \in Clients, call \in ConcurrentCalls : Begin(c, call)
  \/ \E c \in Clients : Retry(c)
  \/ \E c \in Clients : Finish(c)

SpecConcurrent == Init /\ [][NextConcurrent]_vars

Delta(call, a) ==
  IF call.op = "executeTransfer"
  THEN (IF a = call.account THEN -call.amount ELSE 0)
       + (IF a = call.counterpart THEN call.amount ELSE 0)
  ELSE IF a = call.account THEN SignedAmount(call.amount, call.type) ELSE 0

\* the sum of the deltas on account a of the calls that returned success
CommittedDeltas(a) ==
  SumOver([c \in Clients |->
             IF calls[c].pc = "done" /\ calls[c].ok = Def(TRUE)
             THEN Delta(Val(calls[c].call), a) ELSE 0], Clients)

\* C18: no lost update: in every interleaving of ledger operations invoked
\* concurrently on the same account, the account's balance equals its
\* opening balance plus the sum of the balance deltas of the operations that
\* returned success
C18_NoLostUpdate ==
  \A a \in DOMAIN accounts :
    accounts[a].balance = Plus(HistorySumOf(a, "initial"), CommittedDeltas(a))

(***************************************************************************)
(* Transfers and their reference codes: accounts are opened and transfers  *)
(* executed, each with a reference code drawn by generateReferenceCode.    *)
(***************************************************************************)
NextReferences ==
  \/ \E b \in {Def(1), Def(2)}, n \in AccountNumberOutcomes(Db) :
       nextId.accounts <= MaxSmallAccounts /\ CreateAccount("u1", b, Undefined, n)
  \/ \E f \in AccountIds, t \in AccountIds, c \in RefCodes :
       ExecuteTransfer(f, t, 1, Undefined, c)

SpecReferences == Init /\ [][NextReferences]_vars

\* C19: transfer reference codes are unique: no two transfer rows carry the
\* same reference_code, so the reference code on a transaction identifies
\* exactly one transfer
C19_ReferenceCodesUnique ==
  /\ \A s \in DOMAIN transfers, t \in DOMAIN transfers :
       s # t => transfers[s].reference_code # transfers[t].reference_code
  /\ \A x \in DOMAIN transactions :
       transactions[x].reference # Undefined
       => Cardinality({t \in DOMAIN transfers :
                         transfers[t].reference_code = Val(transactions[x].reference)}) = 1

\* the draws that are v at position i and 0 everywhere else, and the draws
\* that are the same everywhere
ShapeDraws ==
  {[j \in 1..RefLength |-> IF j = i THEN v ELSE 0] : i \in 1..RefLength, v \in 0..35}
  \cup {[j \in 1..RefLength |-> v] : v \in 0..35}

\* C20: every reference code produced by generateReferenceCode, whatever
\* the random choices, has length 14 and the shape XXXX-XXXX-XXXX: hyphens
\* at positions 5 and 10, an uppercase letter or a digit at each of the
\* other 12 positions, no trailing hyphen; so has every code stored on a
\* transfer
C20_ReferenceCodeShape ==
  LET alphanumeric ==
        {"A", "B", "C", "D", "E", "F", "G", "H", "I", "J", "K", "L", "M",
         "N", "O", "P", "Q", "R", "S", "T", "U", "V", "W", "X", "Y", "Z",
         "0", "1", "2", "3", "4", "5", "6", "7", "8", "9"}
      shaped(code) ==
        /\ Len(code) = 14
        /\ \A k \in 1..Len(code) :
             IF k \in {5, 10} THEN code[k] = "-" ELSE code[k] \in alphanumeric
  IN /\ \A d \in ShapeDraws : shaped(generateReferenceCode(d))
     /\ \A t \in DOMAIN transfers : shaped(transfers[t].reference_code)

\* a transfer carries the code drawn as twelve times "9"
C20_Witness ==
  \E t \in DOMAIN transfers :
    /\ transfers[t].reference_code = generateReferenceCode([i \in 1..RefLength |-> 35])
    /\ transfers[t].reference_code =
         <<"9", "9", "9", "9", "-", "9", "9", "9", "9", "-", "9", "9", "9", "9">>

\* C21: updateAccountBalance in single mode (isBulk false or absent) on an
\* existing account succeeds whatever the balance: it creates exactly one
\* non-pending transaction, a credit of +amount for "add" and a debit of
\* -amount for "remove", changes the balance by that signed amount even
\* when the result is negative, and appends exactly one history row of
\* change_type "admin_adjustment" that references the new transaction;
\* nothing else changes
C21_SingleAdjustment ==
  \A a \in DOMAIN accounts, x \in AmountArgs, ty \in AdjustTypes,
     b \in {Undefined, Def(FALSE)}, n \in {Undefined, Def(MaxBulk)},
     ra \in {Undefined, Def(TRUE)} :
    LET r == updateAccountBalance(Db,
               [accountId |-> a, amount |-> x, type |-> ty, isBulk |-> b,
                bulkTransactions |-> n, randomAmounts |-> ra,
                reference |-> Undefined], [i \in 1..MaxBulk |-> 15])
        signed == IF ty = "add" THEN x ELSE -x
        id == nextId.transactions
    IN /\ r.result.ok
       /\ id \notin DOMAIN transactions
       /\ DOMAIN r.db.transactions = DOMAIN transactions \cup {id}
       /\ \A t \in DOMAIN transactions : r.db.transactions[t] = transactions[t]
       /\ r.db.transactions[id] =
            [account_id |-> a, amount |-> signed,
             type |-> (IF ty = "add" THEN "credit" ELSE "debit"),
             pending |-> FALSE, reference |-> Undefined]
       /\ r.db.accounts =
            [accounts EXCEPT ![a].balance = Plus(accounts[a].balance, signed)]
       /\ r.db.history =
            Append(history,
                   [account_id |-> a,
                    balance |-> Plus(accounts[a].balance, signed),
                    change_amount |-> signed, change_type |-> "admin_adjustment",
                    reference_id |-> id, reference_type |-> "transaction"])
       /\ r.db.transfers = transfers

\* a single removal of 2 has taken an account from 0 to -2
C21_Witness ==
  /\ Len(history) >= 2
  /\ history[Len(history)].change_type = "admin_adjustment"
  /\ history[Len(history)].change_amount = -2
  /\ history[Len(history)].balance = -2
  /\ accounts[history[Len(history)].account_id].balance = -2
  /\ history[Len(history)].reference_id \in DOMAIN transactions
  /\ transactions[history[Len(history)].reference_id].type = "debit"

\* C22: a bulk updateAccountBalance (isBulk true, bulkTransactions N >= 1)
\* on an existing account creates exactly N transactions, all non-pending
\* and all on that account, and appends exactly one history row, of
\* change_type "bulk_adjustment"; the row's change_amount is the sum of the
\* amounts of the N transactions and is the change made to the balance
C22_BulkAdjustment ==
  \A a \in DOMAIN accounts, x \in AmountArgs, ty \in AdjustTypes,
     n \in 1..MaxBulk, ra \in {Undefined, Def(TRUE)} :
    \A ms \in [1..n -> Multipliers] :
      LET r == updateAccountBalance(Db,
                 [accountId |-> a, amount |-> x, type |-> ty,
                  isBulk |-> Def(TRUE), bulkTransactions |-> Def(n),
                  randomAmounts |-> ra, reference |-> Undefined], ms)
          created == DOMAIN r.db.transactions \ DOMAIN transactions
          row == r.db.history[Len(r.db.history)]
      IN /\ r.result.ok
         /\ Cardinality(created) = n
         /\ DOMAIN transactions \subseteq DOMAIN r.db.transactions
         /\ \A t \in DOMAIN transactions : r.db.transactions[t] = transactions[t]
         /\ \A t \in created :
              /\ r.db.transactions[t].account_id = a
              /\ r.db.transactions[t].pending = FALSE
         /\ Len(r.db.history) = Len(history) + 1
         /\ SubSeq(r.db.history, 1, Len(history)) = history
         /\ row.account_id = a
         /\ row.change_type = "bulk_adjustment"
         /\ row.change_amount =
              SumOver([t \in created |-> r.db.transactions[t].amount], created)
         /\ r.db.accounts =
              [accounts EXCEPT ![a].balance = Plus(accounts[a].balance, row.change_amount)]
         /\ row.balance = r.db.accounts[a].balance

\* a bulk call has created two transactions of 2 and one history row of 4
C22_Witness ==
  /\ Len(history) = 2
  /\ history[2].change_type = "bulk_adjustment"
  /\ history[2].change_amount = 4
  /\ DOMAIN transactions = {1, 2}
  /\ \A t \in DOMAIN transactions :
       transactions[t].amount = 2 /\ ~transactions[t].pending
  /\ accounts[history[2].account_id].balance = history[1].balance + 4

\* C23: updateAccountBalance called with an amount <= 0, in single or bulk
\* mode, returns a failure, creates no transaction, appends no history row
\* and leaves the account balance unchanged
C23_NonPositiveAdjustmentFails ==
  \A a \in DOMAIN accounts, x \in {0, -1}, ty \in AdjustTypes, m \in AdjustModes :
    Len(m.multipliers) = (IF m.bulkTransactions = Undefined
                          THEN 0 ELSE Val(m.bulkTransactions))
    => LET r == updateAccountBalance(Db,
                  [accountId |-> a, amount |-> x, type |-> ty,
                   isBulk |-> m.isBulk, bulkTransactions |-> m.bulkTransactions,
                   randomAmounts |-> m.randomAmounts, reference |-> Undefined],
                  m.multipliers)
       IN /\ ~r.result.ok
          /\ r.db.transactions = transactions
          /\ r.db.history = history
          /\ r.db.accounts[a].balance = accounts[a].balance

(***************************************************************************)
(* Opening accounts: generateAccountNumber as the loop it is.              *)
(***************************************************************************)
maxAttempts == 10

\* generateAccountNumber with the test of attempts made after the look-up
RECURSIVE AccountNumberLoop_LateCheck(_, _, _, _)
AccountNumberLoop_LateCheck(db, candidates, attempts, lookups) ==
  LET accountNumber == candidates[attempts + 1]
      existing == \E a \in DOMAIN db.accounts :
                    db.accounts[a].account_number = accountNumber
  IN IF attempts + 1 > maxAttempts
     THEN [accountNumber |-> Undefined, lookups |-> lookups + 1]
     ELSE IF existing
     THEN AccountNumberLoop_LateCheck(db, candidates, attempts + 1, lookups + 1)
     ELSE [accountNumber |-> Def(accountNumber), lookups |-> lookups + 1]

\* generateAccountNumber returning its first draw without looking it up
AccountNumberLoop_NoLookup(db, candidates, attempts, lookups) ==
  [accountNumber |-> Def(candidates[attempts + 1]), lookups |-> lookups]

\* the do-while loop of generateAccountNumber (accounts.ts 13-28) entered
\* with attempts attempts made; candidates[k] is the number drawn in the
\* k-th iteration, lookups counts the queries on by_account_number
RECURSIVE AccountNumberLoop(_, _, _, _)
AccountNumberLoop(db, candidates, attempts, lookups) ==
  LET accountNumber == candidates[attempts + 1]
      existing == \E a \in DOMAIN db.accounts :
                    db.accounts[a].account_number = accountNumber
  IN IF attempts + 1 > maxAttempts
     THEN [accountNumber |-> Undefined, lookups |-> lookups]
     ELSE IF existing
     THEN AccountNumberLoop(db, candidates, attempts + 1, lookups + 1)
     ELSE [accountNumber |-> Def(accountNumber), lookups |-> lookups + 1]

\* the number returned (Undefined when it threw) and the look-ups made
generateAccountNumber(db, candidates) == AccountNumberLoop(db, candidates, 0, 0)

\* the draws considered: one number k times, then another
CandidateSeqs ==
  {[i \in 1..(maxAttempts + 1) |-> IF i <= k THEN c ELSE d] :
     k \in 0..(maxAttempts + 1), c \in AccountNumbers, d \in AccountNumbers}

NextAccounts ==
  \/ \E u \in UserIds, b \in BalanceArgs, cs \in CandidateSeqs :
       CreateAccount(u, b, Undefined, generateAccountNumber(Db, cs).accountNumber)
  \/ \E a \in AccountIds, s \in AccountStatusArgs :
       UpdateAccount(a, Undefined, s)

SpecAccounts == Init /\ [][NextAccounts]_vars

\* C24: generateAccountNumber terminates after at most 10 uniqueness
\* look-ups; it returns the first candidate that no account holds, and when
\* each of the 10 candidates it looks up is held it fails, and createAccount
\* then inserts no account and no history row
C24_AccountNumberBounded ==
  \A cs \in CandidateSeqs :
    LET g == generateAccountNumber(Db, cs)
        held(n) == \E a \in DOMAIN accounts : accounts[a].account_number = n
        free == {k \in 1..maxAttempts : ~held(cs[k])}
        r == createAccount(Db, [user_id |-> "u1", balance |-> Def(2),
                                status |-> Undefined], g.accountNumber)
    IN /\ g.lookups <= maxAttempts
       /\ IF free = {}
          THEN /\ g.accountNumber = Undefined
               /\ ~r.result.ok
               /\ r.db = Db
          ELSE LET first == CHOOSE k \in free : \A j \in free : k <= j
               IN /\ g.accountNumber = Def(cs[first])
                  /\ g.lookups = first
                  /\ r.result.ok
                  /\ r.db.accounts[nextId.accounts].account_number = cs[first]

\* two accounts hold numbers 1 and 2: ten draws of 1 and then a free number
\* fail, nine draws of 1 and then number 3 give 3
C24_Witness ==
  /\ {accounts[a].account_number : a \in DOMAIN accounts} = {1, 2}
  /\ generateAccountNumber(Db, [i \in 1..(maxAttempts + 1) |->
                                  IF i <= maxAttempts THEN 1 ELSE 3]).accountNumber = Undefined
  /\ generateAccountNumber(Db, [i \in 1..(maxAttempts + 1) |->
                                  IF i <= maxAttempts - 1 THEN 1 ELSE 3]) =
       [accountNumber |-> Def(3), lookups |-> maxAttempts]

(***************************************************************************)
(* createAccount calls in flight at the same time.  The look-ups of        *)
(* generateAccountNumber on the index by_account_number are reads of the    *)
(* transaction: the store commits the call only when they would still find  *)
(* what they found, and otherwise runs the handler again, with new draws.   *)
(***************************************************************************)
\* the draws considered for calls in flight: number 1 or 2 up to the last
\* look-up or beyond it, then the other
ConcurrentCandidateSeqs ==
  {[i \in 1..(maxAttempts + 1) |-> IF i <= k THEN c ELSE d] :
     k \in {1, maxAttempts, maxAttempts + 1}, c \in {1, 2}, d \in {1, 2}}

\* a createAccount call in flight: the numbers its first run drew and the
\* numbers its current run drew
CreateCalls ==
  {[op |-> "createAccount", first |-> cs, candidates |-> cs] : cs \in ConcurrentCandidateSeqs}

\* what the look-ups of the call's run found, were they made in db: for each
\* candidate looked up on the snapshot, the accounts of db that hold it
NumberReadSet(call, snapshot, db) ==
  [k \in 1..generateAccountNumber(snapshot, call.candidates).lookups |->
     {db.accounts[a] : a \in {b \in DOMAIN db.accounts :
                                db.accounts[b].account_number = call.candidates[k]}}]

\* NumberConflict with every look-up taken to be still current
NumberConflict_Never(call, snapshot, db) == FALSE

\* a look-up of the call's run would find something else in db
NumberConflict(call, snapshot, db) ==
  NumberReadSet(call, snapshot, snapshot) # NumberReadSet(call, snapshot, db)

BeginCreate(c, call) ==
  /\ calls[c].pc = "idle"
  /\ calls' = [calls EXCEPT ![c] =
       [pc |-> "running", call |-> Def(call), snapshot |-> Def(Db), ok |-> Undefined]]
  /\ UNCHANGED <<accounts, transactions, transfers, history, nextId>>

RetryCreate(c, candidates) ==
  /\ calls[c].pc = "running"
  /\ NumberConflict(Val(calls[c].call), Val(calls[c].snapshot), Db)
  /\ calls' = [calls EXCEPT
       ![c].call = Def([Val(calls[c].call) EXCEPT !.candidates = candidates]),
       ![c].snapshot = Def(Db)]
  /\ UNCHANGED <<accounts, transactions, transfers, history, nextId>>

\* the account row and the history row the handler inserted on its snapshot
\* are inserted in the committed database, with the number it generated
FinishCreate(c) ==
  /\ calls[c].pc = "running"
  /\ ~NumberConflict(Val(calls[c].call), Val(calls[c].snapshot), Db)
  /\ LET g == generateAccountNumber(Val(calls[c].snapshot), Val(calls[c].call).candidates)
         r == createAccount(Db, [user_id |-> "u1", balance |-> Undefined,
                                 status |-> Undefined], g.accountNumber)
     IN /\ CommitDb(r.db)
        /\ calls' = [calls EXCEPT ![c].pc = "done", ![c].ok = Def(r.result.ok)]

NextConcurrentAccounts ==
  \/ \E c \in Clients, call \in CreateCalls : BeginCreate(c, call)
  \/ \E c \in Clients, cs \in ConcurrentCandidateSeqs : RetryCreate(c, cs)
  \/ \E c \in Clients : FinishCreate(c)

SpecConcurrentAccounts == Init /\ [][NextConcurrentAccounts]_vars

C26_CreateAccountEffect ==
  \A u \in UserIds, b \in BalanceArgs \cup {Def(0), Def(-1)}, cs \in CandidateSeqs :
    LET g == generateAccountNumber(Db, cs)
        r == createAccount(Db, [user_id |-> u, balance |-> b, status |-> Undefined],
                           g.accountNumber)
        id == nextId.accounts
        initial == IF b = Undefined THEN 0 ELSE Val(b)
    IN IF u \in ExistingUsers
       THEN /\ r.result.ok
            /\ id \notin DOMAIN accounts
            /\ DOMAIN r.db.accounts = DOMAIN accounts \cup {id}
            /\ \A a \in DOMAIN accounts : r.db.accounts[a] = accounts[a]
            /\ r.db.accounts[id].balance = initial
            /\ r.db.accounts[id].user_id = u
            /\ r.db.history =
                 Append(history,
                        [account_id |-> id, balance |-> initial,
                         change_amount |-> initial, change_type |-> "initial",
                         reference_id |-> id, reference_type |-> "account_creation"])
            /\ r.db.transactions = transactions
            /\ r.db.transfers = transfers
       ELSE ~r.result.ok /\ r.db = Db

\* C26, amended: the same for an existing user whose call generated an
\* account number; when the user is missing or every number looked up is
\* held, createAccount fails and inserts nothing
C26_CreateAccountEffectWhenNumbered ==
  \A u \in UserIds, b \in BalanceArgs \cup {Def(0), Def(-1)}, cs \in CandidateSeqs :
    LET g == generateAccountNumber(Db, cs)
        r == createAccount(Db, [user_id |-> u, balance |-> b, status |-> Undefined],
                           g.accountNumber)
        id == nextId.accounts
        initial == IF b = Undefined THEN 0 ELSE Val(b)
    IN IF u \in ExistingUsers /\ g.accountNumber # Undefined
       THEN /\ r.result.ok
            /\ id \notin DOMAIN accounts
            /\ DOMAIN r.db.accounts = DOMAIN accounts \cup {id}
            /\ \A a \in DOMAIN accounts : r.db.accounts[a] = accounts[a]
            /\ r.db.accounts[id].balance = initial
            /\ r.db.accounts[id].user_id = u
            /\ r.db.accounts[id].account_number = Val(g.accountNumber)
            /\ r.db.history =
                 Append(history,
                        [account_id |-> id, balance |-> initial,
                         change_amount |-> initial, change_type |-> "initial",
                         reference_id |-> id, reference_type |-> "account_creation"])
            /\ r.db.transactions = transactions
            /\ r.db.transfers = transfers
       ELSE ~r.result.ok /\ r.db = Db

\* an account opened with no balance and one opened with 2, each with its
\* initial row
C26_Witness ==
  /\ \E a \in DOMAIN accounts : accounts[a].balance = 0
  /\ \E a \in DOMAIN accounts : accounts[a].balance = 2
  /\ Len(history) = Cardinality(DOMAIN accounts)
  /\ \A i \in 1..Len(history) :
       /\ history[i].change_type = "initial"
       /\ history[i].balance = accounts[history[i].account_id].balance
       /\ history[i].change_amount = history[i].balance

\* C27: in every reachable state a transfer whose status is "pending" has
\* no transaction carrying its reference code, so cancelling a pending
\* transfer leaves no applied debit or credit behind
C27_PendingHasNoLegs ==
  \A t \in DOMAIN transfers :
    transfers[t].status = "pending" => Carrying(transfers[t].reference_code) = {}

\* C28: updateTransferStatus on an existing transfer sets its status to the
\* requested value whatever the current status, and updateTransferStatus
\* and cancelTransfer change nothing but that transfer's status field:
\* every account balance, every transaction and every history row stays
C28_StatusOnly ==
  \A t \in DOMAIN transfers :
    LET onlyStatus(db, s) ==
          /\ db.accounts = accounts
          /\ db.transactions = transactions
          /\ db.history = history
          /\ db.nextId = nextId
          /\ DOMAIN db.transfers = DOMAIN transfers
          /\ \A o \in DOMAIN transfers \ {t} : db.transfers[o] = transfers[o]
          /\ db.transfers[t].status = s
          /\ db.transfers[t].from_account_id = transfers[t].from_account_id
          /\ db.transfers[t].to_account_id = transfers[t].to_account_id
          /\ db.transfers[t].amount = transfers[t].amount
          /\ db.transfers[t].reference_code = transfers[t].reference_code
          /\ db.transfers[t].type = transfers[t].type
        c == cancelTransfer(Db, [transferId |-> t])
    IN /\ \A s \in {"pending", "completed", "failed", "cancelled"} :
            LET r == updateTransferStatus(Db, [transferId |-> t, status |-> s])
            IN r.result.ok /\ onlyStatus(r.db, s)
       /\ onlyStatus(c.db, IF c.result.ok THEN "cancelled" ELSE transfers[t].status)

\* a transfer of 1 made from a balance of 2 has been set to "cancelled": its
\* two transactions, the balances and the two history rows are still there
C28_Witness ==
  \E t \in DOMAIN transfers :
    /\ transfers[t].status = "cancelled"
    /\ transfers[t].from_account_id # transfers[t].to_account_id
    /\ Cardinality(Carrying(transfers[t].reference_code)) = 2
    /\ \A x \in Carrying(transfers[t].reference_code) : ~transactions[x].pending
    /\ accounts[transfers[t].from_account_id].balance = 1
    /\ Len(history) = 4
    /\ history[Len(history)].change_type = "transfer"

(***************************************************************************)
(* Deleting accounts and users (convex/accounts.ts, convex/users.ts,       *)
(* convex/admin.ts).  The users table is not part of the state: a deleted  *)
(* user is a user with no account left.                                    *)
(***************************************************************************)
\* the history rows that are not of account a
HistoryWithout(h, a) ==
  LET Keep(row) == row.account_id # a IN SelectSeq(h, Keep)

\* the loop over [...fromTransfers, ...toTransfers] of account a: both lists
\* are collected before any delete, so a transfer from a to a is in both and
\* is deleted a second time; missingThrows says whether ctx.db.delete of a
\* document that is gone throws.  Gives the database the loop leaves and
\* whether it threw
DeleteTransfersOf(db, a, missingThrows) ==
  LET fromTransfers == {t \in DOMAIN db.transfers : db.transfers[t].from_account_id = a}
      toTransfers == {t \in DOMAIN db.transfers : db.transfers[t].to_account_id = a}
      twice == fromTransfers \cap toTransfers
      deleted == IF twice = {} \/ ~missingThrows
                 THEN fromTransfers \cup toTransfers
                 ELSE fromTransfers \cup
                      {t \in toTransfers : \A s \in twice : t < s}
  IN [db |-> [db EXCEPT !.transfers =
                [t \in (DOMAIN @) \ deleted |-> @[t]]],
      threw |-> twice # {} /\ missingThrows]

\* the transactions, the history rows and the row of account a deleted
DeleteAccountRows(db, a) ==
  [db EXCEPT !.transactions =
               [t \in {x \in DOMAIN @ : @[x].account_id # a} |-> @[t]],
             !.history = HistoryWithout(@, a),
             !.accounts = [i \in (DOMAIN @) \ {a} |-> @[i]]]

\* deleteAccount (accounts.ts 283-343): transactions, history, transfers,
\* then the account; a throw inside is caught and what was deleted before
\* it stays deleted
deleteAccount(db, args, missingThrows) ==
  IF args.accountId \notin DOMAIN db.accounts
  THEN Failure(db, "deleteAccount", "Account not found")
  ELSE
    LET a == args.accountId
        db1 == [db EXCEPT !.transactions =
                            [t \in {x \in DOMAIN @ : @[x].account_id # a} |-> @[t]],
                          !.history = HistoryWithout(@, a)]
        loop == DeleteTransfersOf(db1, a, missingThrows)
    IN IF loop.threw
       THEN Failure(loop.db, "deleteAccount", "Delete on nonexistent document")
       ELSE Success(Delete(loop.db, "accounts", a), "deleteAccount")

\* the second loop of deleteUser, over the ids of the deleted accounts that
\* are left to do
RECURSIVE UserTransfersLoop(_, _, _)
UserTransfersLoop(db, accountIds, missingThrows) ==
  IF accountIds = {}
  THEN Success(db, "deleteUser")
  ELSE
    LET a == CHOOSE x \in accountIds : \A y \in accountIds : x <= y
        loop == DeleteTransfersOf(db, a, missingThrows)
    IN IF loop.threw
       THEN Failure(loop.db, "deleteUser", "Delete on nonexistent document")
       ELSE UserTransfersLoop(loop.db, accountIds \ {a}, missingThrows)

\* the first loop of deleteUser: the rows of each account of the user
RECURSIVE UserAccountsLoop(_, _)
UserAccountsLoop(db, accountIds) ==
  IF accountIds = {} THEN db
  ELSE LET a == CHOOSE x \in accountIds : TRUE
       IN UserAccountsLoop(DeleteAccountRows(db, a), accountIds \ {a})

\* deleteUser (users.ts 235-300, admin.ts 335-419)
deleteUser(db, args, missingThrows) ==
  IF args.userId \notin ExistingUsers
  THEN Failure(db, "deleteUser", "User not found")
  ELSE
    LET accountIds == {a \in DOMAIN db.accounts : db.accounts[a].user_id = args.userId}
    IN UserTransfersLoop(UserAccountsLoop(db, accountIds), accountIds, missingThrows)

DeleteAccount(a, missingThrows) ==
  Commit(deleteAccount(Db, [accountId |-> a], missingThrows))

DeleteUser(u, missingThrows) ==
  Commit(deleteUser(Db, [userId |-> u], missingThrows))

MaxDeletionTx == 3

NextDeletion ==
  \/ \E n \in AccountNumberOutcomes(Db) :
       nextId.accounts <= MaxSmallAccounts /\ CreateAccount("u1", Def(2), Undefined, n)
  \/ \E a \in AccountIds :
       nextId.transactions <= MaxDeletionTx
       /\ CreateTransaction(a, 2, "credit", Undefined, Undefined)
  \/ \E f \in AccountIds, t \in AccountIds :
       nextId.transactions + 1 <= MaxDeletionTx
       /\ ExecuteTransfer(f, t, 1, Undefined, generateReferenceCode(ZeroDraws))
  \/ \E a \in AccountIds, missingThrows \in BOOLEAN : DeleteAccount(a, missingThrows)
  \/ \E u \in UserIds, missingThrows \in BOOLEAN : DeleteUser(u, missingThrows)

SpecDeletion == Init /\ [][NextDeletion]_vars

\* C29: deleteAccount on an existing account is all-or-nothing and leaves
\* no dangling reference: it returns success with the account, every
\* transaction and history row of it and every transfer naming it removed,
\* or failure with no row removed, also for an account with a transfer from
\* itself to itself; and in every reachable state every transaction and
\* every history row references an existing account
C29_DeleteAccountAllOrNothing ==
  /\ \A a \in DOMAIN accounts, missingThrows \in BOOLEAN :
       LET r == deleteAccount(Db, [accountId |-> a], missingThrows)
       IN IF r.result.ok
          THEN /\ DOMAIN r.db.accounts = DOMAIN accounts \ {a}
               /\ \A t \in DOMAIN r.db.transactions :
                    r.db.transactions[t].account_id # a
               /\ \A i \in 1..Len(r.db.history) : r.db.history[i].account_id # a
               /\ \A t \in DOMAIN r.db.transfers :
                    /\ r.db.transfers[t].from_account_id # a
                    /\ r.db.transfers[t].to_account_id # a
          ELSE r.db = Db
  /\ \A t \in DOMAIN transactions : transactions[t].account_id \in DOMAIN accounts
  /\ \A i \in 1..Len(history) : history[i].account_id \in DOMAIN accounts

\* the history rows of account a, oldest first
HistoryOf(a) ==
  LET Of(row) == row.account_id = a IN SelectSeq(history, Of)

\* C30: the balance-history chain of every account is self-consistent in
\* every reachable state: in creation order, each row's balance is the
\* previous row's balance plus its own change_amount (the first row's
\* balance is its change_amount), and the balance of the newest row is the
\* account's current balance
C30_HistoryChain ==
  \A a \in DOMAIN accounts :
    LET rows == HistoryOf(a)
    IN /\ \A i \in 1..Len(rows) :
            rows[i].balance =
              IF i = 1 THEN rows[i].change_amount
              ELSE Plus(rows[i - 1].balance, rows[i].change_amount)
       /\ rows # <<>> => rows[Len(rows)].balance = accounts[a].balance

====
